---------------------------- MODULE Spec2Model ----------------------------
(***************************************************************************)
(* funk.py: composable function wrappers (match, match_pred, precondition, *)
(* postcondition, memoize, lookup_table) stacked around a self-recursive   *)
(* Fibonacci body.  The model is a small-step interpreter of the call      *)
(* stack: one frame per active call of a wrapper's inner() or of the body, *)
(* one action per step of a handler.  A recursive call of the decorated    *)
(* name enters the outermost layer of the stack again.                     *)
(***************************************************************************)
EXTENDS Integers, Sequences, FiniteSets, TLC

\* ------------------------------------------------------------------------
\* Bounds of the model
\* ------------------------------------------------------------------------
\* largest argument of a top-level call
MaxN == 4
\* number of top-level calls made on one decorated function
MaxCalls == 2

\* arguments of the top-level calls (one positional argument, as fib takes)
TopArgs == { <<n>> : n \in -1..MaxN }

\* ------------------------------------------------------------------------
\* Predicates of the repository (the lambdas of funk.py / demos.py)
\* ------------------------------------------------------------------------
\* "None" is the wildcard entry of match_pred
Holds(p, x) ==
    CASE p = "le1" -> x <= 1
      [] p = "ge0" -> x >= 0
      [] p = "gt0" -> x > 0
      [] OTHER -> FALSE

\* ------------------------------------------------------------------------
\* Layers of a decorator stack, outermost first, the body last
\* ------------------------------------------------------------------------
Blank ==
    [kind |-> "body", matches |-> <<>>, result |-> 0, preds |-> <<>>,
     pred |-> "None", lookups |-> <<>>, base |-> FALSE]

Match(t, r) == [Blank EXCEPT !.kind = "match", !.matches = t, !.result = r]
MatchPred(ps, r) == [Blank EXCEPT !.kind = "match_pred", !.preds = ps, !.result = r]
Precondition(p) == [Blank EXCEPT !.kind = "precondition", !.pred = p]
Postcondition(p) == [Blank EXCEPT !.kind = "postcondition", !.pred = p]
Memoize == [Blank EXCEPT !.kind = "memoize"]
LookupTable(ls) == [Blank EXCEPT !.kind = "lookup_table", !.lookups = ls]
\* the recursive body: with the inline base case "if n <= 1: return 1" or without
Body(b) == [Blank EXCEPT !.kind = "body", !.base = b]

\* the literal rules stacked around fib_match: the repository's pair, the pair
\* swapped, a rule whose tuple has another length (outermost), a rule whose result is 0
MatchRules ==
    { << <<0>>, 1, <<1>>, 1 >>,
      << <<1>>, 1, <<0>>, 1 >>,
      << <<0, 1>>, 1, <<0>>, 1 >>,
      << <<0>>, 0, <<1>>, 1 >> }

\* the predicate sequences of match_pred: the repository's, the empty one, a
\* wildcard, one longer than the argument tuple
PredRules == { <<"le1">>, <<>>, <<"None">>, <<"le1", "gt0">> }
\* predicate sequences that reject some n >= 0 (only below a precondition)
GuardedPredRules == PredRules \cup { <<"gt0">> }

\* seed lists of lookup_table: ascending as in the repository, an unordered
\* one, one with a duplicate seed, the empty one
SeedLists ==
    { << <<0>>, <<1>>, <<3>> >>,
      << <<3>>, <<0>>, <<1>> >>,
      << <<2>>, <<2>> >>,
      << >> }

\* funk.py 121-148
FunkStacks ==
    { << Precondition("ge0"), Postcondition("gt0"),
         Match(m[1], m[2]), Match(m[3], m[4]), Body(FALSE) >> : m \in MatchRules }
    \cup { << MatchPred(ps, 1), Body(FALSE) >> : ps \in PredRules }
    \cup { << Memoize, Body(TRUE) >> }
    \cup { << LookupTable(ls), Body(TRUE) >> : ls \in SeedLists }

\* demos.py 9-42
DemoStacks ==
    { << Precondition("ge0"), Postcondition("gt0"), MatchPred(ps, 1), Body(FALSE) >> :
         ps \in GuardedPredRules }
    \cup { << Precondition("ge0"), Postcondition("gt0"), Memoize, Body(TRUE) >> }
    \cup { << Precondition("ge0"), Postcondition("gt0"), LookupTable(ls), Body(TRUE) >> :
         ls \in SeedLists }

Stacks == FunkStacks \cup DemoStacks

\* ------------------------------------------------------------------------
\* State
\* ------------------------------------------------------------------------
VARIABLES
    layers,           \* the decorator stack of the function under test
    stack,            \* the call stack: frames of inner() and of the body
    ret,              \* the value or error travelling to the caller
    cache,            \* memoize: cache = {}
    table,            \* lookup_table: table = {}
    table_generated,  \* lookup_table: table_generated[0]
    ncalls,           \* top-level calls made so far
    invoked,          \* per layer: how often it was called with each tuple
    seedlog,          \* the tuples the seed loop called f with, in order
    flips,            \* how often table_generated[0] was assigned True
    last              \* the frame that returned or raised last

vars == << layers, stack, ret, cache, table, table_generated, ncalls,
           invoked, seedlog, flips, last >>

NoRet == [kind |-> "none", val |-> 0, err |-> ""]
Val(v) == [kind |-> "value", val |-> v, err |-> ""]
Err(e) == [kind |-> "error", val |-> 0, err |-> e]

EmptyMap == [x \in {} |-> 0]

Frame(l, a) ==
    [layer |-> l, args |-> a, pc |-> "enter", i |-> 0, acc |-> 0,
     calls |-> 0, sub |-> NoRet, gen |-> FALSE]

NoFrame == Frame(0, <<>>)

Count(bag, a) == IF a \in DOMAIN bag THEN bag[a] ELSE 0

Bump(inv, l, a) ==
    LET b == inv[l]
    IN  [inv EXCEPT ![l] = (a :> (Count(b, a) + 1)) @@ b]

Top == stack[Len(stack)]
TopLayer == layers[Top.layer]
Running(kind, pc) ==
    /\ stack # <<>>
    /\ TopLayer.kind = kind
    /\ Top.pc = pc

\* the frame on top calls layer l with tuple a and waits at pc
CallFrom(f, l, a) ==
    /\ stack' = Append([stack EXCEPT ![Len(stack)] = [f EXCEPT !.calls = @ + 1]],
                       Frame(l, a))
    /\ invoked' = Bump(invoked, l, a)
    /\ ret' = NoRet
    /\ last' = last

\* the frame on top (in its final form f) leaves the stack with outcome r
Leave(f, r) ==
    /\ stack' = SubSeq(stack, 1, Len(stack) - 1)
    /\ ret' = r
    /\ last' = f
    /\ invoked' = invoked

\* the frame on top moves on to f without calling or returning
Goto(f) ==
    /\ stack' = [stack EXCEPT ![Len(stack)] = f]
    /\ ret' = NoRet
    /\ last' = last
    /\ invoked' = invoked

Init ==
    /\ layers \in Stacks
    /\ stack = <<>>
    /\ ret = NoRet
    /\ cache = EmptyMap
    /\ table = EmptyMap
    /\ table_generated = FALSE
    /\ ncalls = 0
    /\ invoked = [l \in 1..Len(layers) |-> EmptyMap]
    /\ seedlog = <<>>
    /\ flips = 0
    /\ last = NoFrame

\* a caller invokes the decorated name
Call ==
    /\ stack = <<>>
    /\ ncalls < MaxCalls
    /\ \E a \in TopArgs :
         /\ stack' = << Frame(1, a) >>
         /\ invoked' = Bump(invoked, 1, a)
    /\ ncalls' = ncalls + 1
    /\ ret' = NoRet
    /\ UNCHANGED << layers, cache, table, table_generated, seedlog, flips, last >>

\* ------------------------------------------------------------------------
\* The decisions of the wrappers
\* ------------------------------------------------------------------------
Min(a, b) == IF a <= b THEN a ELSE b

\* faulty variant of MatchHit: identity in place of equality, never true
MatchHit_Identity(args, matches) == FALSE

\* faulty variant of MatchHit: only the first position is compared
MatchHit_First(args, matches) == args[1] = matches[1]

\* match.inner: args == matches
MatchHit(args, matches) == args = matches

\* faulty variant of PredHit: any() in place of all()
PredHit_Any(matches, args) ==
    \E k \in 1..Min(Len(matches), Len(args)) :
        matches[k] = "None" \/ Holds(matches[k], args[k])

\* match_pred.inner: all(match is None or match(arg) for match, arg in zip(matches, args))
PredHit(matches, args) ==
    \A k \in 1..Min(Len(matches), Len(args)) :
        matches[k] = "None" \/ Holds(matches[k], args[k])

\* faulty variant of PreHolds: the predicate is not consulted
PreHolds_Skipped(pred, args) == TRUE

\* faulty variant of PreHolds: the bound of the predicate is off by one
PreHolds_OffByOne(pred, args) == Holds(pred, args[1] + 1)

\* precondition.inner: pred(*args, **kwargs)
PreHolds(pred, args) == Holds(pred, args[1])

\* faulty variant of PostHolds: the predicate is not consulted
PostHolds_Skipped(pred, result) == TRUE

\* postcondition.inner: pred(result)
PostHolds(pred, result) == Holds(pred, result)

\* faulty variant of MemoMiss: the cache is never found to hold the tuple
MemoMiss_Always(c, args) == TRUE

\* memoize.inner: not args in cache
MemoMiss(c, args) == args \notin DOMAIN c

\* faulty variant of MemoStore: the result is not stored
MemoStore_Dropped(c, args, value) == c

\* faulty variant of MemoStore: the cache is replaced by the new entry
MemoStore_Clobber(c, args, value) == (args :> value)

\* memoize.inner: cache[args] = f(*args)
MemoStore(c, args, value) == (args :> value) @@ c

\* faulty variant of SwitchNow: the flag is not switched before the seed loop
SwitchNow_Late(generated) == generated

\* lookup_table inner: table_generated[0] = True, before the seed loop
SwitchNow(generated) == TRUE

\* faulty variant of SeedAt: the seeds are taken from the end of the list
SeedAt_Reversed(lookups, i) == lookups[Len(lookups) - i + 1]

\* lookup_table inner: for lookup in lookups, the i-th turn of the loop
SeedAt(lookups, i) == lookups[i]

\* faulty variant of SeedStore: the result is stored under the caller's tuple
SeedStore_UnderArgs(t, lookup, args, value) == (args :> value) @@ t

\* lookup_table inner: table[tuple(lookup)] = f(*lookup)
SeedStore(t, lookup, args, value) == (lookup :> value) @@ t

\* faulty variant of TableHit: the table is never found to hold the tuple
TableHit_Never(t, args) == FALSE

\* lookup_table inner: args in table
TableHit(t, args) == args \in DOMAIN t

\* faulty variant of FibBase: the base case stops at 0
FibBase_Zero(n) == n <= 0

\* the bodies of fib_memo and fib_lookup: if n <= 1: return 1
FibBase(n) == n <= 1

\* ------------------------------------------------------------------------
\* match (funk.py 14-17)
\* ------------------------------------------------------------------------
match_inner ==
    /\ Running("match", "enter")
    /\ IF MatchHit(Top.args, TopLayer.matches)
         THEN Leave(Top, Val(TopLayer.result))
         ELSE CallFrom([Top EXCEPT !.pc = "wait"], Top.layer + 1, Top.args)
    /\ UNCHANGED << layers, cache, table, table_generated, ncalls, seedlog, flips >>

\* ------------------------------------------------------------------------
\* match_pred (funk.py 36-39)
\* ------------------------------------------------------------------------
match_pred_inner ==
    /\ Running("match_pred", "enter")
    /\ IF PredHit(TopLayer.preds, Top.args)
         THEN Leave(Top, Val(TopLayer.result))
         ELSE CallFrom([Top EXCEPT !.pc = "wait"], Top.layer + 1, Top.args)
    /\ UNCHANGED << layers, cache, table, table_generated, ncalls, seedlog, flips >>

\* ------------------------------------------------------------------------
\* precondition (funk.py 51-55)
\* ------------------------------------------------------------------------
precondition_inner ==
    /\ Running("precondition", "enter")
    /\ IF PreHolds(TopLayer.pred, Top.args)
         THEN CallFrom([Top EXCEPT !.pc = "wait"], Top.layer + 1, Top.args)
         ELSE Leave(Top, Err("Precondition not met"))
    /\ UNCHANGED << layers, cache, table, table_generated, ncalls, seedlog, flips >>

\* ------------------------------------------------------------------------
\* postcondition (funk.py 67-72)
\* ------------------------------------------------------------------------
postcondition_inner ==
    /\ Running("postcondition", "enter")
    /\ CallFrom([Top EXCEPT !.pc = "result"], Top.layer + 1, Top.args)
    /\ UNCHANGED << layers, cache, table, table_generated, ncalls, seedlog, flips >>

postcondition_check ==
    /\ Running("postcondition", "result")
    /\ ret.kind = "value"
    /\ IF PostHolds(TopLayer.pred, ret.val)
         THEN Leave([Top EXCEPT !.sub = ret], Val(ret.val))
         ELSE Leave([Top EXCEPT !.sub = ret], Err("Postcondition not met"))
    /\ UNCHANGED << layers, cache, table, table_generated, ncalls, seedlog, flips >>

\* ------------------------------------------------------------------------
\* memoize (funk.py 86-90)
\* ------------------------------------------------------------------------
memoize_inner ==
    /\ Running("memoize", "enter")
    /\ IF MemoMiss(cache, Top.args)
         THEN CallFrom([Top EXCEPT !.pc = "store"], Top.layer + 1, Top.args)
         ELSE Leave(Top, Val(cache[Top.args]))
    /\ UNCHANGED << layers, cache, table, table_generated, ncalls, seedlog, flips >>

memoize_store ==
    /\ Running("memoize", "store")
    /\ ret.kind = "value"
    /\ cache' = MemoStore(cache, Top.args, ret.val)
    /\ Leave([Top EXCEPT !.sub = ret], Val(ret.val))
    /\ UNCHANGED << layers, table, table_generated, ncalls, seedlog, flips >>

\* ------------------------------------------------------------------------
\* lookup_table (funk.py 105-117)
\* ------------------------------------------------------------------------
\* 107-110: the test of the flag and the switch
lookup_inner ==
    /\ Running("lookup_table", "enter")
    /\ IF ~table_generated
         THEN /\ table_generated' = SwitchNow(table_generated)
              /\ flips' = flips + 1
              /\ Goto([Top EXCEPT !.pc = "loop", !.i = 1, !.gen = TRUE])
         ELSE /\ Goto([Top EXCEPT !.pc = "check"])
              /\ UNCHANGED << table_generated, flips >>
    /\ UNCHANGED << layers, cache, table, ncalls, seedlog >>

\* 111-112: the next seed is computed, or the loop ends
lookup_loop ==
    /\ Running("lookup_table", "loop")
    /\ IF Top.i <= Len(TopLayer.lookups)
         THEN /\ CallFrom([Top EXCEPT !.pc = "seed"], Top.layer + 1,
                          SeedAt(TopLayer.lookups, Top.i))
              /\ seedlog' = Append(seedlog, SeedAt(TopLayer.lookups, Top.i))
         ELSE /\ Goto([Top EXCEPT !.pc = "check"])
              /\ seedlog' = seedlog
    /\ UNCHANGED << layers, cache, table, table_generated, ncalls, flips >>

\* 112: the result of the seed is stored
lookup_store ==
    /\ Running("lookup_table", "seed")
    /\ ret.kind = "value"
    /\ table' = SeedStore(table, SeedAt(TopLayer.lookups, Top.i), Top.args, ret.val)
    /\ Goto([Top EXCEPT !.pc = "loop", !.i = @ + 1, !.sub = ret])
    /\ UNCHANGED << layers, cache, table_generated, ncalls, seedlog, flips >>

\* 114-117: the table is consulted
lookup_check ==
    /\ Running("lookup_table", "check")
    /\ IF TableHit(table, Top.args)
         THEN Leave(Top, Val(table[Top.args]))
         ELSE CallFrom([Top EXCEPT !.pc = "wait"], Top.layer + 1, Top.args)
    /\ UNCHANGED << layers, cache, table, table_generated, ncalls, seedlog, flips >>

\* ------------------------------------------------------------------------
\* the Fibonacci bodies (funk.py 125-148, demos.py 13-42); the recursive
\* calls go through the decorated name, the outermost layer
\* ------------------------------------------------------------------------
body_enter ==
    /\ Running("body", "enter")
    /\ IF TopLayer.base /\ FibBase(Top.args[1])
         THEN Leave(Top, Val(1))
         ELSE CallFrom([Top EXCEPT !.pc = "left"], 1, << Top.args[1] - 1 >>)
    /\ UNCHANGED << layers, cache, table, table_generated, ncalls, seedlog, flips >>

body_second ==
    /\ Running("body", "left")
    /\ ret.kind = "value"
    /\ CallFrom([Top EXCEPT !.pc = "right", !.acc = ret.val], 1, << Top.args[1] - 2 >>)
    /\ UNCHANGED << layers, cache, table, table_generated, ncalls, seedlog, flips >>

body_add ==
    /\ Running("body", "right")
    /\ ret.kind = "value"
    /\ Leave([Top EXCEPT !.sub = ret], Val(Top.acc + ret.val))
    /\ UNCHANGED << layers, cache, table, table_generated, ncalls, seedlog, flips >>

\* ------------------------------------------------------------------------
\* return f(*args, **kwargs): the result of the wrapped call is handed on
\* ------------------------------------------------------------------------
Return ==
    /\ stack # <<>>
    /\ Top.pc = "wait"
    /\ ret.kind = "value"
    /\ Leave([Top EXCEPT !.sub = ret], Val(ret.val))
    /\ UNCHANGED << layers, cache, table, table_generated, ncalls, seedlog, flips >>

\* faulty variant of Propagate: the frame that waits swallows the error and
\* returns a default value
Propagate_Swallowed ==
    /\ stack # <<>>
    /\ ret.kind = "error"
    /\ Leave([Top EXCEPT !.sub = ret], Val(0))
    /\ UNCHANGED << layers, cache, table, table_generated, ncalls, seedlog, flips >>

\* faulty variant of Propagate: memoize stores a default result for the
\* tuple whose computation failed
Propagate_Caching ==
    /\ stack # <<>>
    /\ ret.kind = "error"
    /\ Leave([Top EXCEPT !.sub = ret], ret)
    /\ cache' = IF TopLayer.kind = "memoize" THEN MemoStore(cache, Top.args, 0) ELSE cache
    /\ UNCHANGED << layers, table, table_generated, ncalls, seedlog, flips >>

\* no inner() and no body has a try: an error abandons the frame that waits
Propagate ==
    /\ stack # <<>>
    /\ ret.kind = "error"
    /\ Leave([Top EXCEPT !.sub = ret], ret)
    /\ UNCHANGED << layers, cache, table, table_generated, ncalls, seedlog, flips >>

Next ==
    \/ Call
    \/ match_inner
    \/ match_pred_inner
    \/ precondition_inner
    \/ postcondition_inner
    \/ postcondition_check
    \/ memoize_inner
    \/ memoize_store
    \/ lookup_inner
    \/ lookup_loop
    \/ lookup_store
    \/ lookup_check
    \/ body_enter
    \/ body_second
    \/ body_add
    \/ Return
    \/ Propagate

Spec == Init /\ [][Next]_vars

\* ------------------------------------------------------------------------
\* Vocabulary of the properties
\* ------------------------------------------------------------------------
HasKind(k) == \E l \in DOMAIN layers : layers[l].kind = k
LayerOf(k) == CHOOSE l \in DOMAIN layers : layers[l].kind = k
Range(q) == { q[k] : k \in DOMAIN q }
Lookups == layers[LayerOf("lookup_table")].lookups
Occurrences(q, x) == Cardinality({ k \in DOMAIN q : q[k] = x })

\* a frame of a wrapper of kind k has just returned or raised: ret is its outcome
Left(k) ==
    /\ ret.kind # "none"
    /\ last.layer # 0
    /\ layers[last.layer].kind = k

\* the frames of the wrappers of kind k that wait for the computation they wrap
Waiting(k) ==
    { j \in DOMAIN stack : layers[stack[j].layer].kind = k /\ stack[j].pc = "wait" }

\* the frame above frame j is the wrapped computation, called with j's arguments
DelegatedSame(j) ==
    j < Len(stack) =>
        /\ stack[j + 1].layer = stack[j].layer + 1
        /\ stack[j + 1].args = stack[j].args

\* the frames of lookup_table inner() that run the seed loop
Generating == { j \in DOMAIN stack : stack[j].gen /\ stack[j].pc \in {"loop", "seed"} }

\* ------------------------------------------------------------------------
\* lookup_table
\* ------------------------------------------------------------------------
\* C1: the flag of a lookup table goes from not-generated to generated exactly
\* once, on the first call of the wrapper whatever its arguments, and never
\* goes back; the seed loop is started exactly once, however many seeds the
\* recursive calls reach while the table is generated.
C1_OneShotGeneration ==
    /\ flips <= 1
    /\ table_generated <=> (flips = 1)
    /\ Cardinality({ j \in DOMAIN stack : stack[j].gen }) <= flips
    /\ Len(seedlog) <= flips * (IF HasKind("lookup_table") THEN Len(Lookups) ELSE 0)
    /\ HasKind("lookup_table") =>
          LET l == LayerOf("lookup_table")
              first == /\ stack # <<>>
                       /\ Top.layer = l
                       /\ Top.pc = "enter"
                       /\ \A j \in 1..(Len(stack) - 1) : stack[j].layer # l
          IN  /\ (DOMAIN invoked[l] = {}) => ~table_generated
              /\ (DOMAIN invoked[l] # {} /\ ~first) => table_generated

\* C1 witness: a second top-level call has ended on a generated table whose
\* generation reached a seed again through recursion
C1_Witness ==
    /\ HasKind("lookup_table")
    /\ table_generated
    /\ ncalls = 2
    /\ stack = <<>>
    /\ ret.kind = "value"
    /\ \E s \in Range(Lookups) : Count(invoked[LayerOf("lookup_table")], s) >= 2

\* C2: the flag is Generated before the next computation is called for any
\* seed; a seed computation that re-enters the wrapper sees Generated and
\* starts no nested generation; the seed loop makes a bounded number of calls.
C2_FlagBeforeSeeds ==
    /\ \A j \in DOMAIN stack :
          (layers[stack[j].layer].kind = "lookup_table" /\ stack[j].pc \in {"loop", "seed"})
             => table_generated /\ stack[j].gen
    /\ seedlog # <<>> => table_generated
    /\ Cardinality(Generating) <= 1
    /\ \A j \in Generating : \A k \in (j + 1)..Len(stack) :
          layers[stack[k].layer].kind = "lookup_table"
             => ~stack[k].gen /\ stack[k].pc \in {"enter", "check", "wait"}
    /\ HasKind("lookup_table") => Len(seedlog) <= Len(Lookups)

\* C2 witness: while a seed is computed, the computation has re-entered the
\* wrapper, which consults the table instead of generating it
C2_Witness ==
    \E j \in Generating : \E k \in (j + 1)..Len(stack) :
        /\ stack[j].pc = "seed"
        /\ layers[stack[k].layer].kind = "lookup_table"
        /\ stack[k].pc = "check"

\* C3: on a generated table a call whose tuple is in the table returns the
\* stored result without calling the next computation; a call whose tuple is
\* absent calls it once and stores nothing; the keys of the table are seeds.
C3_HitOrMiss ==
    /\ HasKind("lookup_table") =>
          /\ DOMAIN table \subseteq Range(Lookups)
          /\ DOMAIN table \subseteq Range(seedlog)
          /\ Range(SubSeq(seedlog, 1, Len(seedlog) - 1)) \subseteq DOMAIN table
    /\ (Left("lookup_table") /\ ret.kind = "value") =>
          LET seeded == IF last.gen THEN Len(Lookups) ELSE 0
          IN  IF last.args \in DOMAIN table
                THEN /\ last.pc = "check"
                     /\ ret.val = table[last.args]
                     /\ last.calls = seeded
                ELSE /\ last.pc = "wait"
                     /\ ret = last.sub
                     /\ last.calls = seeded + 1
    /\ \A j \in Waiting("lookup_table") :
          /\ stack[j].args \notin DOMAIN table
          /\ DelegatedSame(j)

\* C3 witness: after generation, a call has hit the table and returned the
\* stored result without a call of the next computation
C3_Witness ==
    /\ Left("lookup_table")
    /\ ~last.gen
    /\ last.args \in DOMAIN table
    /\ last.calls = 0
    /\ ret = Val(table[last.args])

\* the call that generated the table has just returned: the first use is over
GenDone == Left("lookup_table") /\ last.gen /\ ret.kind = "value"

\* the seed tuples are distinct and listed in ascending order: the Fibonacci
\* bodies call the wrapper with smaller arguments only, so no seed computation
\* reaches a seed that is listed after it
Ascending(q) == \A j, k \in DOMAIN q : j < k => q[j][1] < q[k][1]

\* the turns of the seed loop: the i-th turn calls the next computation with
\* the i-th seed and stores what it returns under that seed
SeedTurns ==
    \A j \in Generating :
        LET f == stack[j]
        IN  /\ f.pc = "loop" =>
                 /\ seedlog = SubSeq(Lookups, 1, f.i - 1)
                 /\ f.calls = f.i - 1
                 /\ f.i > 1 => /\ Lookups[f.i - 1] \in DOMAIN table
                               /\ table[Lookups[f.i - 1]] = f.sub.val
            /\ f.pc = "seed" =>
                 /\ seedlog = SubSeq(Lookups, 1, f.i)
                 /\ f.calls = f.i
                 /\ j < Len(stack) => /\ stack[j + 1].layer = f.layer + 1
                                      /\ stack[j + 1].args = Lookups[f.i]

\* C4 as claimed: the seed loop calls the next computation once per seed
\* entry, in order, storing each result under the seed; over the whole first
\* use the next computation is called with each seed tuple exactly once.
C4_Original ==
    HasKind("lookup_table") =>
        /\ SeedTurns
        /\ GenDone =>
              /\ seedlog = Lookups
              /\ \A s \in Range(Lookups) :
                    Count(invoked[LayerOf("lookup_table") + 1], s) = 1

\* C4 amended: the seed loop calls the next computation once per seed entry,
\* in order, storing each result under the seed; over the whole first use the
\* next computation is called with each seed tuple at least once per entry of
\* that tuple, and exactly once when the seeds are distinct and no seed
\* computation reaches a seed listed after it (ascending seeds).
C4_SeededInOrder ==
    HasKind("lookup_table") =>
        /\ SeedTurns
        /\ GenDone =>
              /\ seedlog = Lookups
              /\ \A s \in Range(Lookups) :
                    LET n == Count(invoked[LayerOf("lookup_table") + 1], s)
                    IN  /\ n >= Occurrences(Lookups, s)
                        /\ Ascending(Lookups) => n = 1

\* C4 witness: the first use is over for a list of three seeds, one of which
\* the next computation was called with more than once
C4_Witness ==
    /\ HasKind("lookup_table")
    /\ GenDone
    /\ Len(seedlog) = 3
    /\ \E s \in Range(Lookups) : Count(invoked[LayerOf("lookup_table") + 1], s) > 1

\* C5: an entry of the table, once written, is neither changed nor removed by
\* any later step: later seeds, duplicate seeds, recursive calls, later calls.
C5_EntriesImmutable ==
    [][\A k \in DOMAIN table : k \in DOMAIN table' /\ table'[k] = table[k]]_vars

\* C5 witness: a duplicate seed has been stored a second time and a later
\* top-level call has been served
C5_Witness ==
    /\ HasKind("lookup_table")
    /\ Len(seedlog) = 2
    /\ seedlog[1] = seedlog[2]
    /\ seedlog[1] \in DOMAIN table
    /\ ncalls = 2
    /\ stack = <<>>
    /\ ret.kind = "value"

\* ------------------------------------------------------------------------
\* memoize
\* ------------------------------------------------------------------------
\* C6: once a call with tuple a has completed, every later call with a, from
\* the top or recursive, returns the stored result without calling the
\* underlying computation: the underlying computation is called exactly once
\* for each distinct tuple.
C6_OncePerKey ==
    HasKind("memoize") =>
        LET m == LayerOf("memoize")
        IN  /\ \A a \in DOMAIN invoked[m + 1] : invoked[m + 1][a] = 1
            /\ \A a \in DOMAIN cache : Count(invoked[m + 1], a) = 1
            /\ stack = <<>> => \A a \in DOMAIN invoked[m] : Count(invoked[m + 1], a) = 1
            /\ \A j \in DOMAIN stack :
                  (stack[j].layer = m /\ stack[j].pc = "store") =>
                      /\ stack[j].args \notin DOMAIN cache
                      /\ DelegatedSame(j)
            /\ (Left("memoize") /\ ret.kind = "value") =>
                  /\ last.args \in DOMAIN cache
                  /\ ret.val = cache[last.args]
                  /\ last.pc = "enter" => last.calls = 0
                  /\ last.pc = "store" => last.calls = 1 /\ ret = last.sub

\* C6 witness: a tuple has been called more than once, the last time from the
\* cache, and the underlying computation was called with it once
C6_Witness ==
    /\ HasKind("memoize")
    /\ Left("memoize")
    /\ last.pc = "enter"
    /\ last.calls = 0
    /\ Count(invoked[LayerOf("memoize")], last.args) >= 2
    /\ Count(invoked[LayerOf("memoize") + 1], last.args) = 1

C8_LiteralShortCircuit ==
    /\ Left("match") =>
          LET rule == layers[last.layer]
          IN  IF last.args = rule.matches
                THEN ret = Val(rule.result) /\ last.calls = 0
                ELSE ret = last.sub /\ last.calls = 1
    /\ \A j \in Waiting("match") :
          /\ stack[j].args # layers[stack[j].layer].matches
          /\ stack[j].calls = 1
          /\ DelegatedSame(j)

\* C8 witness: a literal matcher has returned its result without a call
C8_Witness ==
    /\ Left("match")
    /\ last.args = layers[last.layer].matches
    /\ last.calls = 0
    /\ ret = Val(layers[last.layer].result)

\* every predicate that is not a wildcard holds on the argument at its position
AllHold(ps, args) ==
    \A k \in DOMAIN ps \cap DOMAIN args : ps[k] # "None" => Holds(ps[k], args[k])

\* C9: if every non-wildcard predicate holds on the argument at its position
\* the wrapper returns the configured result without calling the wrapped
\* computation; if some argument fails its predicate the wrapper calls the
\* wrapped computation instead.
C9_PredicateMatch ==
    /\ Left("match_pred") =>
          LET rule == layers[last.layer]
          IN  IF AllHold(rule.preds, last.args)
                THEN ret = Val(rule.result) /\ last.calls = 0
                ELSE ret = last.sub /\ last.calls = 1
    /\ \A j \in Waiting("match_pred") :
          /\ ~AllHold(layers[stack[j].layer].preds, stack[j].args)
          /\ stack[j].calls = 1
          /\ DelegatedSame(j)

\* C9 witness: a predicate matcher with a predicate that is not a wildcard
\* has returned its result for one argument and delegated for another
C9_Witness ==
    /\ Left("match_pred")
    /\ layers[last.layer].preds # <<>>
    /\ layers[last.layer].preds[1] # "None"
    /\ AllHold(layers[last.layer].preds, last.args)
    /\ last.calls = 0
    /\ \E j \in Waiting("match_pred") : ~AllHold(layers[stack[j].layer].preds, stack[j].args)

\* C10: a call whose arguments fail the precondition ends in the error and
\* the wrapped computation is not called; a call whose arguments satisfy it
\* calls the wrapped computation once and hands its outcome on unchanged.
C10_Precondition ==
    /\ Left("precondition") =>
          IF Holds(layers[last.layer].pred, last.args[1])
            THEN ret = last.sub /\ last.calls = 1
            ELSE ret = Err("Precondition not met") /\ last.calls = 0
    /\ \A j \in Waiting("precondition") :
          /\ Holds(layers[stack[j].layer].pred, stack[j].args[1])
          /\ stack[j].calls = 1
          /\ DelegatedSame(j)

\* C10 witness: a call with a negative argument has ended in the error and
\* neither the layer below the precondition nor the body was ever called
C10_Witness ==
    /\ Left("precondition")
    /\ ~Holds(layers[last.layer].pred, last.args[1])
    /\ ret = Err("Precondition not met")
    /\ last.calls = 0
    /\ stack = <<>>
    /\ \A l \in 2..Len(layers) : DOMAIN invoked[l] = {}

\* ------------------------------------------------------------------------
\* postcondition
\* ------------------------------------------------------------------------
\* C11: the wrapped computation is always called first; if its result fails
\* the predicate the call ends in the error, after the computation ran, and
\* no value reaches the caller; if the result satisfies it, it is returned
\* unchanged.
C11_Postcondition ==
    /\ Left("postcondition") =>
          /\ last.pc = "result"
          /\ last.calls = 1
          /\ Count(invoked[last.layer + 1], last.args) >= 1
          /\ IF last.sub.kind = "value" /\ ~Holds(layers[last.layer].pred, last.sub.val)
               THEN ret = Err("Postcondition not met")
               ELSE ret = last.sub
    /\ \A j \in DOMAIN stack :
          (layers[stack[j].layer].kind = "postcondition" /\ stack[j].pc # "enter") =>
              /\ stack[j].pc = "result"
              /\ stack[j].calls = 1
              /\ DelegatedSame(j)

\* C11 witness: the wrapped computation has returned a value that fails the
\* predicate and the call has ended in the error
C11_Witness ==
    /\ Left("postcondition")
    /\ last.sub.kind = "value"
    /\ ~Holds(layers[last.layer].pred, last.sub.val)
    /\ ret = Err("Postcondition not met")
    /\ Count(invoked[last.layer + 1], last.args) >= 1

\* ------------------------------------------------------------------------
\* The decorated functions exactly as the repository configures them
\* ------------------------------------------------------------------------
\* largest argument of a call of a Fibonacci function (the demos call 10)
MaxFib == 10
\* number of top-level calls of a Fibonacci function
MaxFibCalls == 1
\* largest seed whose table entry is generated: computing the entry of 30
\* from the entries of 0, 1, 10 and 20 alone takes some 10^6 steps, and no
\* call with an argument up to MaxFib reads it
MaxSeed == 20

\* funk.py 143: @lookup_table([0], [1], [10], [20], [30])
RepoSeeds == << <<0>>, <<1>>, <<10>>, <<20>>, <<30>> >>
FibSeeds == SelectSeq(RepoSeeds, LAMBDA s : s[1] <= MaxSeed)

\* funk.py 121-148 and demos.py 9-42
RepoStacks ==
    { << Precondition("ge0"), Postcondition("gt0"),
         Match(<<0>>, 1), Match(<<1>>, 1), Body(FALSE) >>,
      << MatchPred(<<"le1">>, 1), Body(FALSE) >>,
      << Memoize, Body(TRUE) >>,
      << LookupTable(FibSeeds), Body(TRUE) >>,
      << Precondition("ge0"), Postcondition("gt0"), MatchPred(<<"le1">>, 1), Body(FALSE) >>,
      << Precondition("ge0"), Postcondition("gt0"), Memoize, Body(TRUE) >>,
      << Precondition("ge0"), Postcondition("gt0"), LookupTable(FibSeeds), Body(TRUE) >> }

\* the state after decoration: nothing called, nothing cached or generated
Fresh ==
    /\ stack = <<>>
    /\ ret = NoRet
    /\ cache = EmptyMap
    /\ table = EmptyMap
    /\ table_generated = FALSE
    /\ ncalls = 0
    /\ invoked = [l \in 1..Len(layers) |-> EmptyMap]
    /\ seedlog = <<>>
    /\ flips = 0
    /\ last = NoFrame

InitFib ==
    /\ layers \in RepoStacks
    /\ Fresh

\* memoize and lookup_table keep state between the calls
Stateful == HasKind("memoize") \/ HasKind("lookup_table")

\* the arguments the Fibonacci functions are called with: 0..MaxFib; the
\* call that generates the table of fib_lookup is the call of the demos
FibArgs ==
    IF HasKind("lookup_table") /\ ncalls = 0
      THEN { <<10>> }
      ELSE { <<n>> : n \in 0..MaxFib }

\* funk.py 152-155, demos.py 46-50: a caller invokes the decorated name; the
\* functions that keep state are called once more than the others
CallFib ==
    /\ stack = <<>>
    /\ ncalls < MaxFibCalls + (IF Stateful THEN 1 ELSE 0)
    /\ \E a \in FibArgs :
         /\ stack' = << Frame(1, a) >>
         /\ invoked' = Bump(invoked, 1, a)
    /\ ncalls' = ncalls + 1
    /\ ret' = NoRet
    /\ UNCHANGED << layers, cache, table, table_generated, seedlog, flips, last >>

\* no call of these functions with n >= 0 raises: Propagate has no part
NextFib ==
    \/ CallFib
    \/ match_inner
    \/ match_pred_inner
    \/ precondition_inner
    \/ postcondition_inner
    \/ postcondition_check
    \/ memoize_inner
    \/ memoize_store
    \/ lookup_inner
    \/ lookup_loop
    \/ lookup_store
    \/ lookup_check
    \/ body_enter
    \/ body_second
    \/ body_add
    \/ Return

SpecFib == InitFib /\ [][NextFib]_vars

\* demos.py 3-7: naive_fib
RECURSIVE NaiveFib(_)
NaiveFib(n) == IF n <= 1 THEN 1 ELSE NaiveFib(n - 1) + NaiveFib(n - 2)

\* a call of the decorated name (top-level or recursive) has just ended
CallEnded == ret.kind # "none" /\ last.layer = 1

\* C12: for every n >= 0 within the bounds fib_match, fib_pred, fib_memo and
\* fib_lookup return what the naive recursion f(0) = f(1) = 1,
\* f(n) = f(n-1) + f(n-2) returns; each returns 89 for n = 10.
C12_EndToEnd ==
    CallEnded =>
        /\ ret = Val(NaiveFib(last.args[1]))
        /\ last.args = <<10>> => ret.val = 89

\* C12 witness: fib_lookup(10) has generated its table and returned 89, and a
\* second call fib_lookup(10) has returned 89 from the table
C12_Witness ==
    /\ HasKind("lookup_table")
    /\ stack = <<>>
    /\ ncalls = 2
    /\ CallEnded
    /\ last.args = <<10>>
    /\ ret = Val(89)
    /\ <<10>> \in DOMAIN table
    /\ table[<<10>>] = 89

\* the first call of a memoized function, on a fresh cache, has ended
FirstMemoCallEnded ==
    /\ HasKind("memoize")
    /\ stack = <<>>
    /\ ncalls = 1
    /\ CallEnded

\* the tuples the computation under memoize was called with, with their counts
Underlying == invoked[LayerOf("memoize") + 1]

\* C13 as claimed: on a fresh cache fib_memo(n), n >= 0, returns the value of
\* the unmemoized recursion and calls the underlying computation exactly n + 1
\* times, once for each of 0..n.
C13_Original ==
    FirstMemoCallEnded =>
        /\ ret = Val(NaiveFib(last.args[1]))
        /\ \A a \in DOMAIN Underlying : Underlying[a] = 1
        /\ DOMAIN Underlying = { <<k>> : k \in 0..last.args[1] }

\* C13 amended: on a fresh cache fib_memo(n), n >= 0, returns the value of the
\* unmemoized recursion and calls the underlying computation once per tuple:
\* once for each of 0..n (n + 1 times) when n = 0 or n >= 2, and once in all
\* for n = 1, whose base case returns without a call for 0.
C13_LinearCost ==
    FirstMemoCallEnded =>
        /\ ret = Val(NaiveFib(last.args[1]))
        /\ \A a \in DOMAIN Underlying : Underlying[a] = 1
        /\ DOMAIN Underlying =
              IF last.args[1] = 1 THEN { <<1>> } ELSE { <<k>> : k \in 0..last.args[1] }

\* C13 witness: fib_memo(10) on a fresh cache has returned 89 after 11 calls
\* of the underlying computation
C13_Witness ==
    /\ FirstMemoCallEnded
    /\ last.args = <<10>>
    /\ ret = Val(89)
    /\ Cardinality(DOMAIN Underlying) = 11

\* ------------------------------------------------------------------------
\* The decorator stack as a whole
\* ------------------------------------------------------------------------
\* C14: a call with n = -1 of the Fibonacci function whose outermost wrapper
\* is the precondition n >= 0 ends in the error, and neither the
\* postcondition, nor a literal matcher, nor the body is entered for it.
C14_OutermostGuard ==
    layers[1].kind = "precondition" =>
        /\ \A l \in 2..Len(layers) : \A a \in DOMAIN invoked[l] : a[1] >= 0
        /\ \A j \in DOMAIN stack :
              (stack[j].layer = 1 /\ stack[j].args[1] < 0) =>
                  /\ j = Len(stack)
                  /\ stack[j].pc = "enter"
                  /\ stack[j].calls = 0
        /\ (CallEnded /\ last.args[1] < 0) =>
              /\ ret = Err("Precondition not met")
              /\ last.calls = 0

\* C14 witness: the first call of a function wrapped with precondition,
\* postcondition and literal matchers was made with -1 and has ended in the
\* error, with no layer below the precondition ever entered
C14_Witness ==
    /\ layers[1].kind = "precondition"
    /\ layers[2].kind = "postcondition"
    /\ HasKind("match")
    /\ stack = <<>>
    /\ ncalls = 1
    /\ CallEnded
    /\ last.args = <<-1>>
    /\ ret = Err("Precondition not met")
    /\ \A l \in 2..Len(layers) : DOMAIN invoked[l] = {}

\* two literal matchers with different rule tuples around the body of
\* fib_match, below its contracts (funk.py 121-128), in both stacking orders
SwapTuples == { <<0>>, <<1>>, <<0, 1>> }
SwapResults == { 1, 2 }
SwapStacks ==
    { st \in { << Precondition("ge0"), Postcondition("gt0"),
                  Match(t1, r1), Match(t2, r2), Body(FALSE) >> :
                  t1 \in SwapTuples, t2 \in SwapTuples,
                  r1 \in SwapResults, r2 \in SwapResults } :
         st[3].matches # st[4].matches }

InitSwap ==
    /\ layers \in SwapStacks
    /\ Fresh

NextSwap ==
    \/ Call
    \/ match_inner
    \/ precondition_inner
    \/ postcondition_inner
    \/ postcondition_check
    \/ body_enter
    \/ body_second
    \/ body_add
    \/ Return
    \/ Propagate

SpecSwap == InitSwap /\ [][NextSwap]_vars

\* the rules of the literal matchers of the stack, as a set: their stacking
\* order is forgotten
Rules == { << layers[l].matches, layers[l].result >> :
              l \in { k \in DOMAIN layers : layers[k].kind = "match" } }
RuleTuples == { p[1] : p \in Rules }
RuleResult(a) == (CHOOSE p \in Rules : p[1] = a)[2]
\* the computation the matchers are stacked around
Wrapped == 1 + CHOOSE l \in DOMAIN layers :
                  layers[l].kind = "match" /\ layers[l + 1].kind # "match"
Outermost == CHOOSE l \in DOMAIN layers :
                  layers[l].kind = "match" /\ layers[l - 1].kind # "match"

RECURSIVE BagTotal(_)
BagTotal(b) ==
    IF DOMAIN b = {} THEN 0
    ELSE LET a == CHOOSE x \in DOMAIN b : TRUE
         IN  b[a] + BagTotal([x \in DOMAIN b \ {a} |-> b[x]])

\* what a call with n yields and how often it runs the wrapped computation,
\* told from the set of rules alone
RECURSIVE ByRules(_)
ByRules(n) ==
    IF n < 0 THEN [out |-> Err("Precondition not met"), runs |-> 0]
    ELSE IF <<n>> \in RuleTuples
      THEN [out |-> IF RuleResult(<<n>>) > 0 THEN Val(RuleResult(<<n>>))
                    ELSE Err("Postcondition not met"),
            runs |-> 0]
    ELSE LET L == ByRules(n - 1)
         IN  IF L.out.kind = "error" THEN [out |-> L.out, runs |-> 1 + L.runs]
             ELSE LET R == ByRules(n - 2)
                  IN  IF R.out.kind = "error"
                        THEN [out |-> R.out, runs |-> 1 + L.runs + R.runs]
                        ELSE [out |-> IF L.out.val + R.out.val > 0
                                        THEN Val(L.out.val + R.out.val)
                                        ELSE Err("Postcondition not met"),
                              runs |-> 1 + L.runs + R.runs]

\* C15: two literal matchers with different rule tuples give the same outcome
\* in either stacking order: the returned value and the number of calls of
\* the wrapped computation depend, for every argument tuple, on the set of
\* the two rules only.
C15_OrderIndependent ==
    /\ Left("match") =>
          IF last.args \in RuleTuples
            THEN ret = Val(RuleResult(last.args))
            ELSE ret = last.sub /\ last.calls = 1
    /\ \A a \in DOMAIN invoked[Wrapped] : a \notin RuleTuples
    /\ stack = <<>> =>
          \A a \in DOMAIN invoked[Outermost] :
              a \notin RuleTuples => Count(invoked[Wrapped], a) = invoked[Outermost][a]
    /\ (stack = <<>> /\ CallEnded) =>
          /\ ret = ByRules(last.args[1]).out
          /\ ncalls = 1 => BagTotal(invoked[Wrapped]) = ByRules(last.args[1]).runs

\* C15 witness: the call matched the rule of the inner matcher, whose result
\* differs from the result of the outer one, and the wrapped computation did
\* not run
C15_Witness ==
    /\ stack = <<>>
    /\ CallEnded
    /\ ncalls = 1
    /\ layers[Outermost].result # layers[Outermost + 1].result
    /\ last.args = layers[Outermost + 1].matches
    /\ ret = Val(layers[Outermost + 1].result)
    /\ BagTotal(invoked[Wrapped]) = 0

\* ------------------------------------------------------------------------
\* Stacks in which a contract fails below another wrapper: the decorators of
\* funk.py composed by a caller in other orders, and with the predicate
\* n <= 1 of funk.py 130 as the postcondition
\* ------------------------------------------------------------------------
\* seed lists whose second seed fails, whose first seed fails, and one that
\* is generated in full
FailingSeedLists ==
    { << <<0>>, <<1>>, <<2>> >>,
      << <<1>>, <<0>> >>,
      << <<0>> >> }

ErrStacks ==
    { << Memoize, Precondition("ge0"), Match(<<0>>, 1), Body(FALSE) >>,
      << Memoize, Postcondition("le1"), Body(TRUE) >>,
      << Precondition("ge0"), Postcondition("le1"), Memoize, Body(TRUE) >>,
      << Precondition("ge0"), Postcondition("gt0"), MatchPred(<<"gt0">>, 1), Body(FALSE) >> }
    \cup { << LookupTable(ls), Precondition("ge0"), Match(<<0>>, 1), Body(FALSE) >> :
              ls \in FailingSeedLists }

InitErr ==
    /\ layers \in ErrStacks
    /\ Fresh

SpecErr == InitErr /\ [][Next]_vars

\* the frame on top is abandoned: it leaves the stack with the error it got
Abandoned ==
    /\ stack' = SubSeq(stack, 1, Len(stack) - 1)
    /\ ret' = ret
    /\ last'.sub = ret

\* C16: no wrapper catches an error of the computation it wraps or of a
\* nested layer: once a contract is violated at any depth of the recursion,
\* every enclosing frame is abandoned and the outermost call ends in that
\* same error, without a value.
C16_ErrorsPropagate ==
    /\ [](ret.kind # "none" /\ last.layer # 0 /\ last.sub.kind = "error" => ret = last.sub)
    /\ [][(ret.kind = "error" /\ stack # <<>>) => Abandoned]_vars

\* C16 witness: a precondition failed in a nested frame while a seed of a
\* lookup table was computed, and the outermost call has ended in that error
C16_Witness ==
    /\ HasKind("lookup_table")
    /\ stack = <<>>
    /\ ncalls = 1
    /\ last.layer = 1
    /\ last.gen
    /\ last.sub = Err("Precondition not met")
    /\ ret = Err("Precondition not met")

\* ------------------------------------------------------------------------
\* The guarded recursion: fib_match of funk.py under the contracts of demos.py
\* ------------------------------------------------------------------------
GuardedStack ==
    << Precondition("ge0"), Postcondition("gt0"),
       Match(<<0>>, 1), Match(<<1>>, 1), Body(FALSE) >>

InitGuard ==
    /\ layers = GuardedStack
    /\ Fresh

\* the interpreter runs a call to its end: every step of a started call.
\* An error arises in this stack only in the outermost precondition frame
\* (C17_Contained below), where no caller is left to abandon.
RunGuard ==
    \/ match_inner
    \/ precondition_inner
    \/ postcondition_inner
    \/ postcondition_check
    \/ body_enter
    \/ body_second
    \/ body_add
    \/ Return

NextGuard == Call \/ RunGuard

\* a started call is executed synchronously; only the caller decides whether
\* there is another call
SpecGuard == InitGuard /\ [][NextGuard]_vars /\ WF_vars(RunGuard)

\* every frame of a call with n >= 0 has its argument in 0..n, the body runs
\* only above both matchers' misses, and an error is the outermost
\* precondition's alone
C17_Contained ==
    /\ \A j \in DOMAIN stack :
          /\ stack[1].args[1] >= 0 => stack[j].args[1] \in 0..stack[1].args[1]
          /\ layers[stack[j].layer].kind = "body" => stack[j].args[1] >= 2
    /\ ret.kind = "error" =>
          /\ stack = <<>>
          /\ last.layer = 1
          /\ last.args[1] < 0
          /\ last.calls = 0
          /\ ret = Err("Precondition not met")

\* C17: for every n >= 0 a call of the guarded fib_match ends with a value;
\* every recursive call has its argument in 0..n, so no contract fails in a
\* nested frame and the recursion ends at a literal matcher.
C17_GuardedTermination ==
    /\ []C17_Contained
    /\ (stack # <<>> /\ stack[1].args[1] >= 0) ~> (stack = <<>> /\ ret.kind = "value")

\* C17 witness: the call with the largest n has ended with a value after
\* recursive calls that ended at the matcher of (0,)
C17_Witness ==
    /\ layers = GuardedStack
    /\ stack = <<>>
    /\ ret.kind = "value"
    /\ last.layer = 1
    /\ last.args = <<MaxN>>
    /\ Count(invoked[1], <<0>>) >= 2
    /\ Count(invoked[5], <<0>>) = 0

\* ------------------------------------------------------------------------
\* State kept across a failure
\* ------------------------------------------------------------------------
\* the frames of memoize inner() for args that have not yet reached line 88
Entering(a) ==
    { j \in DOMAIN stack :
        /\ layers[stack[j].layer].kind = "memoize"
        /\ stack[j].args = a
        /\ stack[j].pc = "enter" }

\* every entry of the cache is kept as it is
EntriesKept == \A k \in DOMAIN cache : k \in DOMAIN cache' /\ cache'[k] = cache[k]

C18_NothingStored ==
    HasKind("memoize") =>
        /\ (Left("memoize") /\ ret.kind = "error") =>
              /\ last.args \notin DOMAIN cache
              /\ last.calls = 1
              /\ ret = last.sub
        /\ \A a \in DOMAIN invoked[LayerOf("memoize")] :
              (a \notin DOMAIN cache /\ Entering(a) = {}) =>
                  Count(invoked[LayerOf("memoize") + 1], a) = Count(invoked[LayerOf("memoize")], a)

\* C18: a memoized call with tuple a that ends in an error of the wrapped
\* computation or of a nested layer adds no entry for a; the entries of nested
\* calls that completed earlier stay; a later call with a invokes the wrapped
\* computation again.
C18_MemoizeOnFailure ==
    /\ []C18_NothingStored
    /\ [][EntriesKept /\ (ret'.kind = "error" => cache' = cache)]_vars

\* C18 witness: the same tuple failed twice under memoize, the wrapped
\* computation ran for it both times, and the cache holds only the entry of
\* the nested call that completed
C18_Witness ==
    /\ layers[1].kind = "memoize"
    /\ stack = <<>>
    /\ ncalls = 2
    /\ ret.kind = "error"
    /\ last.layer = 1
    /\ last.args \notin DOMAIN cache
    /\ Count(invoked[1], last.args) = 2
    /\ Count(invoked[2], last.args) = 2
    /\ cache # EmptyMap

\* the seed loop has been left, by its end or by an error
LoopLeft == table_generated /\ Generating = {}

\* seedlog holds the first seeds of the list, in the order of the list
SeedPrefix ==
    /\ Len(seedlog) <= Len(Lookups)
    /\ \A k \in DOMAIN seedlog : seedlog[k] = Lookups[k]

C19_GenerationFailed ==
    HasKind("lookup_table") =>
        /\ SeedPrefix
        /\ flips <= 1
        /\ (flips = 1) = table_generated
        /\ (Left("lookup_table") /\ last.pc = "seed") =>
              /\ ret.kind = "error"
              /\ ret = last.sub
              /\ last.gen
              /\ table_generated
              /\ Len(seedlog) = last.i
              /\ DOMAIN table = { Lookups[k] : k \in 1..(last.i - 1) }
        /\ (Left("lookup_table") /\ last.pc # "seed") =>
              /\ table_generated
              /\ IF last.args \in DOMAIN table
                   THEN /\ ret = Val(table[last.args])
                        /\ ~last.gen => last.calls = 0
                   ELSE /\ ret = last.sub
                        /\ ~last.gen => last.calls = 1
                        /\ Count(invoked[last.layer + 1], last.args) >= 1

\* C19: when the next computation fails for a seed during generation, the
\* error reaches the first caller, the flag stays generated, the seeds after
\* the failing one are never computed, and every later call runs against the
\* partly filled table, a seed without an entry being delegated like any miss.
C19_NoRetry ==
    /\ []C19_GenerationFailed
    /\ [][(HasKind("lookup_table") /\ LoopLeft) =>
             /\ table_generated'
             /\ seedlog' = seedlog
             /\ table' = table
             /\ flips' = flips]_vars

\* C19 witness: generation failed at the second of three seeds, and a later
\* call with that seed missed the table and was delegated
C19_Witness ==
    /\ HasKind("lookup_table")
    /\ stack = <<>>
    /\ ncalls = 2
    /\ table_generated
    /\ Len(seedlog) = 2
    /\ Len(Lookups) = 3
    /\ DOMAIN table = {Lookups[1]}
    /\ last.layer = LayerOf("lookup_table")
    /\ ~last.gen
    /\ last.args = Lookups[2]
    /\ last.calls = 1
    /\ ret.kind = "error"

\* the postcondition is stacked directly outside memoize
PostOverMemo ==
    /\ HasKind("postcondition")
    /\ HasKind("memoize")
    /\ LayerOf("memoize") = LayerOf("postcondition") + 1

\* the predicate of the postcondition
PostPred == layers[LayerOf("postcondition")].pred

\* the computation below memoize
MemoBody == LayerOf("memoize") + 1

C20_StoredBeforeRejected ==
    PostOverMemo =>
        /\ (Left("postcondition") /\ last.sub.kind = "value" /\ ~Holds(PostPred, last.sub.val)) =>
              /\ ret = Err("Postcondition not met")
              /\ last.args \in DOMAIN cache
              /\ cache[last.args] = last.sub.val
        /\ \A a \in DOMAIN cache : Count(invoked[MemoBody], a) = 1

\* C20: in precondition(postcondition(memoize(f))) a value of f that fails
\* the postcondition for tuple a is stored under a before the postcondition
\* rejects it, and every later call with a fails the postcondition again
\* without invoking f.
C20_PoisonedCache ==
    /\ C20_StoredBeforeRejected
    /\ (PostOverMemo /\ stack # <<>> /\ stack[1].args \in DOMAIN cache
           /\ ~Holds(PostPred, cache[stack[1].args])) =>
          \A j \in DOMAIN stack : j <= LayerOf("memoize") /\ stack[j].layer = j
    /\ (PostOverMemo /\ stack = <<>> /\ last.layer = 1 /\ last.args \in DOMAIN cache
           /\ ~Holds(PostPred, cache[last.args])) =>
          ret = Err("Postcondition not met")

\* C20 witness: the second call with a tuple whose stored value fails the
\* postcondition has failed again, and f ran for that tuple only once
C20_Witness ==
    /\ PostOverMemo
    /\ layers[1].kind = "precondition"
    /\ stack = <<>>
    /\ ncalls = 2
    /\ ret = Err("Postcondition not met")
    /\ last.args \in DOMAIN cache
    /\ ~Holds(PostPred, cache[last.args])
    /\ Count(invoked[1], last.args) = 2
    /\ Count(invoked[MemoBody], last.args) = 1
=============================================================================
